---- MODULE Spec2Model ----
(***************************************************************************)
(* State-machine model of the sensor Things of xiaozhi-esp32:               *)
(*   TemperatureSensor and AdcSensor (main/iot/things/temperature_sensor.cc)*)
(*   Timer (main/iot/things/timer.cc), ThingManager (iot/thing_manager.h).  *)
(*                                                                         *)
(* Numbers.  The code computes in float; the model computes in fixed point *)
(* with four decimals: a voltage, a temperature, a tds, a conductivity or a *)
(* ph value x is the integer x * Scale.  A quotient is truncated toward    *)
(* zero, as static_cast<int> does.                                          *)
(***************************************************************************)
EXTENDS Integers, Sequences, FiniteSets, TLC

\* ------------------------------------------------------------ fixed point

\* One unit of a fixed-point value is 1/Scale.
Scale == 100 * 100

Abs(x) == IF x < 0 THEN -x ELSE x

\* C's integer quotient and float-to-int conversion: truncation toward zero.
Quot(a, b) == IF (a < 0) = (b < 0) THEN Abs(a) \div Abs(b) ELSE -(Abs(a) \div Abs(b))

\* a * b / d, truncated toward zero, without forming a * b (TLC's integers are 32 bits
\* wide): a = q*d + r gives a*b/d = q*b + r*b/d.
MulDiv(a, b, d) ==
    LET s == IF (a < 0) = (b < 0) THEN 1 ELSE -1
        x == Abs(a)
        y == Abs(b)
    IN  s * ((x \div d) * y + ((x % d) * y) \div d)

\* ------------------------------------------------------- program constants

DEFAULT_VREF == 3300
ADC_SAMPLE_COUNT == 16
\* The largest code of the 12-bit converter, the 4095.0f of the voltage formula.
MaxCode == 4095
\* The default temperature of GetTemperature, 25.0f.
DefaultTemperature == 25 * Scale
\* k_factor_ = 0.67f, in hundredths.
k_factor_ == 67
\* slope = -14.0 and intercept = 30.24 of the pH line.
slope == -14
intercept == 302400

\* The converter channels of AdcSensor.
ph_channel_ == "ADC_CHANNEL_1"
tds_channel_ == "ADC_CHANNEL_2"
Channels == {ph_channel_, tds_channel_}

\* ------------------------------------------------------- pure computations

\* ReadTdsVoltage / ReadPhVoltage, after the loop: the integer average of the
\* accumulated samples, converted to volts.
AverageToVoltage(adc_reading) ==
    ((adc_reading \div ADC_SAMPLE_COUNT) * DEFAULT_VREF * (Scale \div 1000)) \div MaxCode

\* 1.0 + 0.02 * (temperature - 25.0), in units of 1/(10*Scale): exact for every
\* temperature raw/16.
CompensationCoefficient(t) == 10 * Scale + Quot(t - DefaultTemperature, 5)

\* tds_voltage_ / compensationCoefficient (the coefficient not zero).
CompensationVoltage(v, t) ==
    LET c  == CompensationCoefficient(t)
        s  == IF (v < 0) = (c < 0) THEN 1 ELSE -1
        n  == Abs(v) * 1000
        d  == Abs(c)
    IN  s * ((n \div d) * 100 + ((n % d) * 100) \div d)

\* (133.42 v^3 - 255.86 v^2 + 857.39 v) * 0.5
TdsOfVoltage(v) ==
    LET v2 == MulDiv(v, v, Scale)
        v3 == MulDiv(v2, v, Scale)
    IN  Quot(MulDiv(v3, 13342, 100) - MulDiv(v2, 25586, 100) + MulDiv(v, 85739, 100), 2)

\* The conductivity taken from the TDS value already rounded to two decimals.
ConductivityOfRoundedTds(tds) == MulDiv(Quot(tds + Scale \div 200, Scale \div 100) * (Scale \div 100), k_factor_, 100)

\* k_factor_ * tds_value_
ConductivityOfTds(tds) == MulDiv(tds, k_factor_, 100)

\* A rounding that multiplies by 100 and divides by 10.
Round2DividedBy10(x) == Quot(x + Scale \div 200, Scale \div 100) * (Scale \div 10)

\* static_cast<float>(static_cast<int>(x * 100 + 0.5)) / 100
Round2(x) == Quot(x + Scale \div 200, Scale \div 100) * (Scale \div 100)

\* slope * ph_voltage_ + intercept
RawPh(v) == slope * v + intercept

\* raw_ph + (25.0f - temperature_) * 0.03
CompensatedPh(raw_ph, t) == raw_ph + Quot((DefaultTemperature - t) * 3, 100)

\* A pH test that takes the limits 4 and 10 themselves for out of range.
PhAlertInclusive(p) == p <= 4 * Scale \/ p >= 10 * Scale

ConductivityAlert(c) == c > 100 * Scale
PhAlert(p) == p < 4 * Scale \/ p > 10 * Scale

\* ------------------------------------------------------------- documents

\* A JSON value, as cJSON sees it: an object with its members, a number or a string.
JObject(m) == [type |-> "object", members |-> m]
JNumber(n) == [type |-> "number", number |-> n]
JString(s) == [type |-> "string", string |-> s]
JNull == [type |-> "null"]

\* The text of a float property: six decimals, as in {"temperature":19.375000}.
FormatFloat(x) ==
    [negative |-> x < 0, integer |-> Abs(x) \div Scale, fraction |-> (Abs(x) % Scale) * 100]

\* The text of an alert's value: std::fixed << std::setprecision(2).
FormatFixed2(x) ==
    [negative |-> x < 0, integer |-> ((Abs(x) + 50) \div 100) \div 100,
     fraction |-> ((Abs(x) + 50) \div 100) % 100]
\* No alert was handed to Application::Schedule.
NoAlert == [about |-> "none", value |-> FormatFixed2(0)]

\* cJSON's valuedouble of that text, converted to float.
ParseNumber(t) ==
    (IF t.negative THEN -1 ELSE 1) * (t.integer * Scale + t.fraction \div 100)

\* A text handed to cJSON_Parse: it parses to a root value, or it does not parse.
Text(root) == [parses |-> TRUE, root |-> root]
Garbage == [parses |-> FALSE, root |-> JNull]

cJSON_GetObjectItem(object, key) ==
    IF object.type = "object" /\ key \in DOMAIN object.members
    THEN object.members[key] ELSE JNull
cJSON_IsObject(item) == item.type = "object"
cJSON_IsNumber(item) == item.type = "number"

\* A command document: {"name": ..., "method": ..., "parameters": {...}}.
Command(name, method, parameters) ==
    [name |-> name, method |-> method, parameters |-> parameters]
NoParameters == [key \in {} |-> JNull]
Parameter(key, value) == [k \in {key} |-> value]
NoCommand == Command("", "", NoParameters)

\* What the dispatch path did last: the command Invoke was given and what became
\* of it, or a state read; and whether a command has been dropped so far.
NoOutcome == [result |-> "none", command |-> NoCommand, dropped |-> FALSE]

\* ---------------------------------------------------------------- inputs

\* The scratchpad bytes <<byte 0, byte 1>> the thermometer may deliver:
\* 0x0190 (25.0 C) and 0x0550 (85.0 C, its power-on value).
Scratchpads == {<<144, 1>>, <<80, 5>>}

\* The scratchpad's bytes 2..8 (alarm registers, configuration, reserved, CRC),
\* and the nine bytes the thermometer holds after power-on: 85.0 C.
ScratchpadTail == <<75, 70, 127, 255, 12, 16, 28>>
PowerOnScratchpad == <<80, 5>> \o ScratchpadTail

\* The codes the converter may deliver on the TDS line (0.2 V, 1.0 V) and on the
\* pH line (pH 7, pH 3.5 at 25 C).
TdsCodes == {250, 1241}
PhCodes == {2060, 2370}

\* ----------------------------------------------------------------- state

Things == {"TemperatureSensor", "AdcSensor", "Timer"}
\* The tasks the Things create, and the path that dispatches commands and state reads.
Procs == {"temp_task", "tds_task", "ph_task", "timer_task", "dispatch"}

VARIABLES
    things_,            \* ThingManager: the registered Things (by name)
    last_states_,       \* ThingManager: name -> the state text of the last GetStatesJson
    json,               \* the Things the last GetStatesJson put in its answer
    temperature_,       \* TemperatureSensor
    tds_voltage_, tds_value_, conductivity_, ph_voltage_, ph_value_,   \* AdcSensor
    toggle_timer_, timer_end_time_,                                    \* Timer
    now,                \* time(NULL)
    line,               \* the code the converter delivers on each channel
    pc,                 \* where each task, and the dispatch path, stands
    i, adc_reading,     \* ReadTdsVoltage / ReadPhVoltage: the loop's locals
    temperature,        \* UpdateTdsValue / UpdatePhValue: the local temperature_
    compensationVoltage, raw_ph,                                       \* their locals
    temp,               \* ReadTemperature's result, not yet stored
    time_range,         \* addTimer's argument
    alert,              \* per caller: the alert its cycle handed to Application::Schedule
    aborted,            \* abort() was called: by whom, or "no"
    sampled,            \* per caller: the channels its read in progress has sampled
    alone,              \* per caller: its read has had the converter to itself
    lastFinal,          \* the value each cycle last published as its final one
    outcome,            \* what the last Invoke did with its command
    scratchpad,         \* the thermometer's nine scratchpad bytes
    wire,               \* the slots on the one-wire line since the last transaction began
    step,               \* per caller: the statement of ReadTemperature it stands at
    byte,               \* per caller: WriteByte's / ReadByte's byte
    data,               \* per caller: ReadTemperature's data[], the bytes read so far
    adc_handle_,        \* per holder: its adc_handle_ (0 is nullptr)
    units,              \* the converter units created and not deleted
    timer_now,          \* TimerTask's local now
    calls,              \* the addTimer calls that have set timer_end_time_
    tested,             \* the call whose end time TimerTask last compared with its now
    notified,           \* the call whose end time led to the last completion notification
    completions         \* the completion notifications scheduled

adcVars == <<tds_voltage_, tds_value_, conductivity_, ph_voltage_, ph_value_>>
timerVars == <<toggle_timer_, timer_end_time_, now>>
registryVars == <<things_, last_states_, json>>
localVars == <<i, adc_reading, temperature, compensationVoltage, raw_ph>>
handlerVars == <<temp, time_range>>
ghostVars == <<sampled, alone, lastFinal, outcome>>
wireVars == <<scratchpad, wire, step, byte, data>>
unitVars == <<adc_handle_, units>>
timerLocals == <<timer_now, calls, tested, notified, completions>>
vars == <<registryVars, temperature_, adcVars, timerVars, line, pc, localVars,
          handlerVars, alert, aborted, ghostVars, wireVars, unitVars, timerLocals>>

\* The holders of a converter handle: the registry (ThingManager::adc_handle_,
\* shared) and the probes (each its adc_handle_ field).
Holders == {"ThingManager", "AdcSensor", "TdsSensor", "PhSensor"}
nullptr == 0

\* The handles once the Things are constructed: AdcSensor and PhSensor create a
\* unit of their own (adc_oneshot_new_unit), TdsSensor takes the registry's,
\* which the registry created for it; a holder that does not exist has nullptr.
ConstructedHandles(registered) ==
    [h \in Holders |->
        CASE h \in {"ThingManager", "TdsSensor"} -> IF "TdsSensor" \in registered THEN 1 ELSE nullptr
          [] h = "AdcSensor" -> IF "AdcSensor" \in registered THEN 2 ELSE nullptr
          [] OTHER -> IF "PhSensor" \in registered THEN 3 ELSE nullptr]

\* ------------------------------------------------------------ AdcSensor

\* -1.0, the value a converter read is specified to return when it gets no access.
Sentinel == -Scale

\* The Things' fields as their constructors leave them.
InitialPublished == [tds |-> 0, conductivity |-> 0, ph |-> 7 * Scale]
Published == [tds |-> tds_value_, conductivity |-> conductivity_, ph |-> ph_value_]

\* A caller is inside ReadTdsVoltage / ReadPhVoltage; it is in the middle of the
\* burst when it has taken a sample and has another to take.
InRead(p) == pc[p] \in {"ReadTdsVoltage", "ReadPhVoltage"}
InBurst(p) == InRead(p) /\ 0 < i[p] /\ i[p] < ADC_SAMPLE_COUNT
\* No other caller is in the middle of a burst.
Alone(p) == \A q \in Procs \ {p} : ~InBurst(q)

\* The same, once caller p has taken one more sample.
AloneAfterSample(q, p) ==
    \A r \in Procs \ {q} :
        ~(InRead(r) /\ (IF r = p THEN i[r] + 1 ELSE i[r]) \in 1 .. ADC_SAMPLE_COUNT - 1)

\* A read of the pH voltage that samples the TDS channel: what the code does not
\* do, and what the average of a read must tell apart.
PhReadsTdsChannel == tds_channel_

\* The channel each read function hands to adc_oneshot_read.
TdsReadChannel == tds_channel_
PhReadChannel == ph_channel_
ReadChannel(label) == IF label = "ReadTdsVoltage" THEN TdsReadChannel ELSE PhReadChannel

\* adc_oneshot_read(adc_handle_, channel, &raw) returning ESP_OK: the raw code.
adc_oneshot_read(channel) == line[channel]

\* Where a caller goes when its cycle is over: the task runs UpdatePhValue after
\* UpdateTdsValue and then sleeps; a method handler returns to the dispatch path.
AfterTds(p) == IF p = "tds_task" THEN "UpdatePhValue" ELSE "idle"
AfterPh(p) == IF p = "tds_task" THEN "vTaskDelay" ELSE "idle"

\* ESP_ERROR_CHECK on a failed call: abort(). The firmware stops and restarts; no
\* task runs on and the memory is lost.
Abort(p) ==
    /\ aborted' = p
    /\ pc' = [q \in Procs |-> "halted"]
    /\ i' = [q \in Procs |-> 0]
    /\ adc_reading' = [q \in Procs |-> 0]
    /\ temperature' = [q \in Procs |-> 0]
    /\ compensationVoltage' = [q \in Procs |-> 0]
    /\ raw_ph' = [q \in Procs |-> 0]
    /\ temp' = [q \in Procs |-> 0]
    /\ time_range' = 0
    /\ alert' = [q \in Procs |-> NoAlert]
    /\ sampled' = [q \in Procs |-> {}]
    /\ alone' = [q \in Procs |-> TRUE]
    /\ lastFinal' = InitialPublished
    /\ outcome' = NoOutcome
    /\ last_states_' = <<>>
    /\ json' = <<>>
    /\ temperature_' = 0
    /\ tds_voltage_' = 0 /\ tds_value_' = 0 /\ conductivity_' = 0
    /\ ph_voltage_' = 0 /\ ph_value_' = 7 * Scale
    /\ toggle_timer_' = FALSE /\ timer_end_time_' = 0
    /\ wire' = <<>>
    /\ step' = [q \in Procs |-> 1]
    /\ byte' = [q \in Procs |-> 0]
    /\ data' = [q \in Procs |-> <<>>]
    /\ UNCHANGED <<things_, now, line, timerLocals, unitVars, scratchpad>>

\* UpdateTdsValue / UpdatePhValue calls its read function: adc_reading = 0, i = 0.
EnterRead(p, from, label) ==
    /\ aborted = "no" /\ pc[p] = from
    /\ pc' = [pc EXCEPT ![p] = label]
    /\ i' = [i EXCEPT ![p] = 0]
    /\ adc_reading' = [adc_reading EXCEPT ![p] = 0]
    /\ sampled' = [sampled EXCEPT ![p] = {}]
    /\ alone' = [alone EXCEPT ![p] = Alone(p)]
    /\ alert' = [alert EXCEPT ![p] = NoAlert]
    /\ UNCHANGED <<wireVars, handlerVars, registryVars, temperature_, adcVars, timerVars, line, timerLocals, unitVars, temperature,
                   compensationVoltage, raw_ph, aborted, lastFinal, outcome>>

EnterReadTds(p) == EnterRead(p, "UpdateTdsValue", "ReadTdsVoltage")
EnterReadPh(p) == EnterRead(p, "UpdatePhValue", "ReadPhVoltage")

\* One turn of the read loop: ESP_ERROR_CHECK(adc_oneshot_read(...)); adc_reading += raw.
\* The driver's call succeeds or fails.
Sample(p) ==
    /\ aborted = "no" /\ InRead(p) /\ i[p] < ADC_SAMPLE_COUNT
    /\ \/ /\ adc_reading' = [adc_reading EXCEPT ![p] = @ + adc_oneshot_read(ReadChannel(pc[p]))]
          /\ i' = [i EXCEPT ![p] = @ + 1]
          /\ sampled' = [sampled EXCEPT ![p] = @ \cup {ReadChannel(pc[p])}]
          /\ alone' = [q \in Procs |-> alone[q] \/ (InRead(q) /\ AloneAfterSample(q, p))]
          /\ UNCHANGED <<wireVars, handlerVars, registryVars, temperature_, adcVars, timerVars, line, timerLocals, unitVars, pc,
                         temperature, compensationVoltage, raw_ph, alert, aborted,
                         lastFinal, outcome>>
       \/ Abort(p)

\* The loop is over: adc_reading /= ADC_SAMPLE_COUNT, the voltage is returned and
\* stored in tds_voltage_ (ph_voltage_).
ReturnTdsVoltage(p) ==
    /\ aborted = "no" /\ pc[p] = "ReadTdsVoltage" /\ i[p] = ADC_SAMPLE_COUNT
    /\ tds_voltage_' = AverageToVoltage(adc_reading[p])
    /\ pc' = [pc EXCEPT ![p] = "tds_GetTemperature"]
    /\ i' = [i EXCEPT ![p] = 0]
    /\ adc_reading' = [adc_reading EXCEPT ![p] = 0]
    /\ UNCHANGED <<wireVars, handlerVars, registryVars, temperature_, tds_value_, conductivity_, ph_voltage_,
                   ph_value_, timerVars, line, timerLocals, unitVars, temperature, compensationVoltage, raw_ph,
                   alert, aborted, ghostVars>>

ReturnPhVoltage(p) ==
    /\ aborted = "no" /\ pc[p] = "ReadPhVoltage" /\ i[p] = ADC_SAMPLE_COUNT
    /\ ph_voltage_' = AverageToVoltage(adc_reading[p])
    /\ pc' = [pc EXCEPT ![p] = "ph_GetTemperature"]
    /\ i' = [i EXCEPT ![p] = 0]
    /\ adc_reading' = [adc_reading EXCEPT ![p] = 0]
    /\ UNCHANGED <<wireVars, handlerVars, registryVars, temperature_, tds_voltage_, tds_value_, conductivity_,
                   ph_value_, timerVars, line, timerLocals, unitVars, temperature, compensationVoltage, raw_ph,
                   alert, aborted, ghostVars>>

\* -------------------------------------------------- properties and lookup

\* An accessor that computes its value from another field instead of returning
\* the field it is registered for.
ConductivityRecomputed == ConductivityOfTds(tds_value_)

\* The property accessors the constructors register: each returns its field.
TemperatureProperty == temperature_
ConductivityProperty == conductivity_
TdsProperty == tds_value_
PhProperty == ph_value_
\* Timer's curTimer: the end time as text while a timer is armed.
CurTimerProperty ==
    IF toggle_timer_ THEN [text |-> "time", time |-> timer_end_time_]
    ELSE [text |-> "no timer", time |-> 0]

\* The state object of a Thing: every property's name with its accessor's value.
StateOf(thing) ==
    CASE thing = "TemperatureSensor" ->
            [temperature |-> JNumber(FormatFloat(TemperatureProperty))]
      [] thing = "AdcSensor" ->
            [conductivity |-> JNumber(FormatFloat(ConductivityProperty)),
             tds |-> JNumber(FormatFloat(TdsProperty)),
             ph |-> JNumber(FormatFloat(PhProperty))]
      [] OTHER -> [curTimer |-> JString(CurTimerProperty)]

\* The state text of a Thing: {"name": ..., "state": {...}}.
StateJson(thing) ==
    Text(JObject([name |-> JString(thing), state |-> JObject(StateOf(thing))]))

\* What GetThingStateJson may answer for a name that is not registered: a text
\* that does not parse, or one without a usable "state" / "temperature".
NotFoundTexts ==
    { Garbage,
      Text(JObject([name |-> JString("")])),
      Text(JObject([name |-> JString(""), state |-> JString("")])),
      Text(JObject([name |-> JString(""), state |-> JObject([none |-> JNull])])),
      Text(JObject([name |-> JString(""),
                    state |-> JObject([temperature |-> JString("")])])) }

\* ThingManager::GetThingStateJson(name): the texts it may return.
GetThingStateJson(name) ==
    IF name \in things_ THEN {StateJson(name)} ELSE NotFoundTexts

\* A lookup that takes "temperature" from the root of the document, not from
\* its "state" member.
TemperatureOfRoot(stateStr) ==
    LET root == stateStr.root
        temperature_item == cJSON_GetObjectItem(root, "temperature")
    IN  IF ~stateStr.parses THEN DefaultTemperature
        ELSE IF ~cJSON_IsNumber(temperature_item) THEN DefaultTemperature
        ELSE ParseNumber(temperature_item.number)

\* AdcSensor::GetTemperature, from the text the lookup returned.
TemperatureOfText(stateStr) ==
    LET root == stateStr.root
        state_obj == cJSON_GetObjectItem(root, "state")
        temperature_item == cJSON_GetObjectItem(state_obj, "temperature")
    IN  IF ~stateStr.parses THEN DefaultTemperature
        ELSE IF ~cJSON_IsObject(state_obj) THEN DefaultTemperature
        ELSE IF ~cJSON_IsNumber(temperature_item) THEN DefaultTemperature
        ELSE ParseNumber(temperature_item.number)

\* float temperature_ = GetTemperature();
GetTemperature(p, from, to) ==
    /\ aborted = "no" /\ pc[p] = from
    /\ \E stateStr \in GetThingStateJson("TemperatureSensor") :
          temperature' = [temperature EXCEPT ![p] = TemperatureOfText(stateStr)]
    /\ pc' = [pc EXCEPT ![p] = to]
    /\ UNCHANGED <<wireVars, handlerVars, registryVars, temperature_, adcVars, timerVars, line, timerLocals, unitVars, i, adc_reading,
                   compensationVoltage, raw_ph, alert, aborted, ghostVars>>

\* A lookup made from inside the read loop, the read not yet returned.
TdsLookupInsideRead(p) == GetTemperature(p, "ReadTdsVoltage", "tds_compensate")

TdsGetTemperature(p) == GetTemperature(p, "tds_GetTemperature", "tds_compensate")
PhGetTemperature(p) == GetTemperature(p, "ph_GetTemperature", "ph_raw")

\* ------------------------------------------------- the rest of the cycles

\* compensationVoltage = tds_voltage_ / (1.0 + 0.02 * (temperature_ - 25.0))
TdsCompensate(p) ==
    /\ aborted = "no" /\ pc[p] = "tds_compensate"
    /\ CompensationCoefficient(temperature[p]) # 0
    /\ compensationVoltage' =
          [compensationVoltage EXCEPT ![p] = CompensationVoltage(tds_voltage_, temperature[p])]
    /\ pc' = [pc EXCEPT ![p] = "tds_convert"]
    /\ UNCHANGED <<wireVars, handlerVars, registryVars, temperature_, adcVars, timerVars, line, timerLocals, unitVars, i, adc_reading,
                   temperature, raw_ph, alert, aborted, ghostVars>>

\* The same statement with a coefficient of zero: the quotient is an infinity (or
\* a NaN for a voltage of zero), which no value of compensationVoltage here
\* stands for; the cycle is followed no further.
TdsCompensateByZero(p) ==
    /\ aborted = "no" /\ pc[p] = "tds_compensate"
    /\ CompensationCoefficient(temperature[p]) = 0
    /\ pc' = [pc EXCEPT ![p] = "tds_not_finite"]
    /\ UNCHANGED <<wireVars, handlerVars, registryVars, temperature_, adcVars, timerVars, line,
                   timerLocals, unitVars, localVars, alert, aborted, ghostVars>>

\* tds_value_ = (133.42 v^3 - 255.86 v^2 + 857.39 v) * 0.5
TdsConvert(p) ==
    /\ aborted = "no" /\ pc[p] = "tds_convert"
    /\ tds_value_' = TdsOfVoltage(compensationVoltage[p])
    /\ pc' = [pc EXCEPT ![p] = "tds_conductivity"]
    /\ UNCHANGED <<wireVars, handlerVars, registryVars, temperature_, tds_voltage_, conductivity_, ph_voltage_,
                   ph_value_, timerVars, line, timerLocals, unitVars, localVars, alert, aborted, ghostVars>>

\* conductivity_ = k_factor_ * tds_value_
TdsConductivity(p) ==
    /\ aborted = "no" /\ pc[p] = "tds_conductivity"
    /\ conductivity_' = ConductivityOfTds(tds_value_)
    /\ pc' = [pc EXCEPT ![p] = "tds_round"]
    /\ UNCHANGED <<wireVars, handlerVars, registryVars, temperature_, tds_voltage_, tds_value_, ph_voltage_,
                   ph_value_, timerVars, line, timerLocals, unitVars, localVars, alert, aborted, ghostVars>>

\* tds_value_ = static_cast<float>(static_cast<int>(tds_value_ * 100 + 0.5)) / 100
TdsRound(p) ==
    /\ aborted = "no" /\ pc[p] = "tds_round"
    /\ tds_value_' = Round2(tds_value_)
    /\ lastFinal' = [lastFinal EXCEPT !.tds = Round2(tds_value_)]
    /\ pc' = [pc EXCEPT ![p] = "conductivity_round"]
    /\ UNCHANGED <<wireVars, handlerVars, registryVars, temperature_, tds_voltage_, conductivity_, ph_voltage_,
                   ph_value_, timerVars, line, timerLocals, unitVars, localVars, alert, aborted, sampled, alone,
                   outcome>>

\* conductivity_ = static_cast<float>(static_cast<int>(conductivity_ * 100 + 0.5)) / 100
ConductivityRound(p) ==
    /\ aborted = "no" /\ pc[p] = "conductivity_round"
    /\ conductivity_' = Round2(conductivity_)
    /\ lastFinal' = [lastFinal EXCEPT !.conductivity = Round2(conductivity_)]
    /\ pc' = [pc EXCEPT ![p] = "tds_alert"]
    /\ UNCHANGED <<wireVars, handlerVars, registryVars, temperature_, tds_voltage_, tds_value_, ph_voltage_,
                   ph_value_, timerVars, line, timerLocals, unitVars, localVars, alert, aborted, sampled, alone,
                   outcome>>

\* if (conductivity_ > 100.0f) app.Schedule(... Alert ...); UpdateTdsValue returns.
TdsAlert(p) ==
    /\ aborted = "no" /\ pc[p] = "tds_alert"
    /\ alert' = [alert EXCEPT ![p] =
                    IF ConductivityAlert(conductivity_)
                    THEN [about |-> "conductivity", value |-> FormatFixed2(conductivity_)]
                    ELSE NoAlert]
    /\ pc' = [pc EXCEPT ![p] = AfterTds(p)]
    /\ temperature' = [temperature EXCEPT ![p] = 0]
    /\ compensationVoltage' = [compensationVoltage EXCEPT ![p] = 0]
    /\ UNCHANGED <<wireVars, handlerVars, registryVars, temperature_, adcVars, timerVars, line, timerLocals, unitVars, i, adc_reading,
                   raw_ph, aborted, ghostVars>>

\* raw_ph = slope * ph_voltage_ + intercept
PhRaw(p) ==
    /\ aborted = "no" /\ pc[p] = "ph_raw"
    /\ raw_ph' = [raw_ph EXCEPT ![p] = RawPh(ph_voltage_)]
    /\ pc' = [pc EXCEPT ![p] = "ph_compensate"]
    /\ UNCHANGED <<wireVars, handlerVars, registryVars, temperature_, adcVars, timerVars, line, timerLocals, unitVars, i, adc_reading,
                   temperature, compensationVoltage, alert, aborted, ghostVars>>

\* ph_value_ = raw_ph + (25.0f - temperature_) * 0.03
PhCompensate(p) ==
    /\ aborted = "no" /\ pc[p] = "ph_compensate"
    /\ ph_value_' = CompensatedPh(raw_ph[p], temperature[p])
    /\ pc' = [pc EXCEPT ![p] = "ph_round"]
    /\ UNCHANGED <<wireVars, handlerVars, registryVars, temperature_, tds_voltage_, tds_value_, conductivity_,
                   ph_voltage_, timerVars, line, timerLocals, unitVars, localVars, alert, aborted, ghostVars>>

\* ph_value_ = static_cast<float>(static_cast<int>(ph_value_ * 100 + 0.5)) / 100
PhRound(p) ==
    /\ aborted = "no" /\ pc[p] = "ph_round"
    /\ ph_value_' = Round2(ph_value_)
    /\ lastFinal' = [lastFinal EXCEPT !.ph = Round2(ph_value_)]
    /\ pc' = [pc EXCEPT ![p] = "ph_alert"]
    /\ UNCHANGED <<wireVars, handlerVars, registryVars, temperature_, tds_voltage_, tds_value_, conductivity_,
                   ph_voltage_, timerVars, line, timerLocals, unitVars, localVars, alert, aborted, sampled, alone,
                   outcome>>

\* if (ph_value_ < 4.0f || ph_value_ > 10.0f) app.Schedule(... Alert ...); returns.
PhAlertStep(p) ==
    /\ aborted = "no" /\ pc[p] = "ph_alert"
    /\ alert' = [alert EXCEPT ![p] =
                    IF PhAlert(ph_value_)
                    THEN [about |-> "ph", value |-> FormatFixed2(ph_value_)]
                    ELSE NoAlert]
    /\ pc' = [pc EXCEPT ![p] = AfterPh(p)]
    /\ temperature' = [temperature EXCEPT ![p] = 0]
    /\ raw_ph' = [raw_ph EXCEPT ![p] = 0]
    /\ UNCHANGED <<wireVars, handlerVars, registryVars, temperature_, adcVars, timerVars, line, timerLocals, unitVars, i, adc_reading,
                   compensationVoltage, aborted, ghostVars>>

\* AdcSensor::SensorTask: vTaskDelay(60000) is over, the loop calls UpdateTdsValue.
AdcTaskWake ==
    /\ aborted = "no" /\ pc["tds_task"] = "vTaskDelay"
    /\ pc' = [pc EXCEPT !["tds_task"] = "UpdateTdsValue"]
    /\ UNCHANGED <<wireVars, handlerVars, registryVars, temperature_, adcVars, timerVars, line, timerLocals, unitVars, localVars, alert,
                   aborted, ghostVars>>

\* One step of an update cycle of caller p.
CycleStep(p) ==
    \/ EnterReadTds(p) \/ Sample(p) \/ ReturnTdsVoltage(p) \/ TdsGetTemperature(p)
    \/ TdsCompensate(p) \/ TdsConvert(p) \/ TdsConductivity(p) \/ TdsRound(p)
    \/ ConductivityRound(p) \/ TdsAlert(p)
    \/ EnterReadPh(p) \/ ReturnPhVoltage(p) \/ PhGetTemperature(p) \/ PhRaw(p)
    \/ PhCompensate(p) \/ PhRound(p) \/ PhAlertStep(p)

\* ------------------------------------------- TdsSensor and PhSensor

\* The probes that came before AdcSensor, each a Thing with a task of its own:
\* TdsSensor (temperature-compensated, fields voltage_, tds_value_,
\* conductivity_) and PhSensor (fields ph_voltage_, ph_value_). Their fields are
\* held in the variables of AdcSensor's fields of the same meaning.
VariantThings == {"TemperatureSensor", "TdsSensor", "PhSensor"}

\* #define ADC_SAMPLE_COUNT 32 of both probes.
Variant_ADC_SAMPLE_COUNT == 32

\* ReadVoltage: the samples of the channel summed, averaged and scaled to volts,
\* each sample delivering raw.
ReadVoltage(raw) ==
    (((Variant_ADC_SAMPLE_COUNT * raw) \div Variant_ADC_SAMPLE_COUNT)
        * DEFAULT_VREF * (Scale \div 1000)) \div MaxCode

\* What adc_oneshot_read(adc_handle_, channel, &raw) may deliver to a holder:
\* the line's code while its handle is a live unit; anything (here the line's
\* code or either end of the range) once the unit has been deleted, the call
\* then being a use of freed memory.
RawOf(holder, channel) ==
    IF adc_handle_[holder] \in units THEN {adc_oneshot_read(channel)}
    ELSE {adc_oneshot_read(channel), 0, MaxCode}

\* PhSensor: raw_ph = (ph_voltage_ - 1.45) / 0.17 + 7.0
PhSensorRawPh(v) == Quot((v - 14500) * 100, 17) + 7 * Scale

\* TdsSensor::UpdateTdsValue, a whole cycle: the read (any sample of which may
\* abort), the lookup, the conversion, the conductivity and the alert test.
TdsSensorUpdate ==
    LET p == "tds_task" IN
    /\ aborted = "no" /\ pc[p] = "TdsSensor_UpdateTdsValue"
    /\ \/ \E stateStr \in GetThingStateJson("TemperatureSensor"), raw \in RawOf("TdsSensor", tds_channel_) :
             LET voltage == ReadVoltage(raw)
                 t == TemperatureOfText(stateStr)
                 tds == TdsOfVoltage(CompensationVoltage(voltage, t))
             IN  /\ CompensationCoefficient(t) # 0
                 /\ tds_voltage_' = voltage
                 /\ tds_value_' = tds
                 /\ conductivity_' = ConductivityOfTds(tds)
                 /\ alert' = [alert EXCEPT ![p] =
                                 IF ConductivityAlert(ConductivityOfTds(tds))
                                 THEN [about |-> "conductivity",
                                       value |-> FormatFixed2(ConductivityOfTds(tds))]
                                 ELSE NoAlert]
                 /\ pc' = [pc EXCEPT ![p] = "TdsSensor_vTaskDelay"]
                 /\ UNCHANGED <<wireVars, handlerVars, registryVars, temperature_, ph_voltage_,
                                ph_value_, timerVars, line, timerLocals, unitVars, localVars, aborted, ghostVars>>
       \/ Abort(p)

\* TdsSensor::SensorTask: vTaskDelay(5000) is over.
TdsSensorWake ==
    /\ aborted = "no" /\ pc["tds_task"] = "TdsSensor_vTaskDelay"
    /\ pc' = [pc EXCEPT !["tds_task"] = "TdsSensor_UpdateTdsValue"]
    /\ UNCHANGED <<wireVars, handlerVars, registryVars, temperature_, adcVars, timerVars, line, timerLocals, unitVars,
                   localVars, alert, aborted, ghostVars>>

\* PhSensor::UpdatePhValue, a whole cycle.
PhSensorUpdate ==
    LET p == "ph_task" IN
    /\ aborted = "no" /\ pc[p] = "PhSensor_UpdatePhValue"
    /\ \/ \E stateStr \in GetThingStateJson("TemperatureSensor"), raw \in RawOf("PhSensor", ph_channel_) :
             LET voltage == ReadVoltage(raw)
                 ph == CompensatedPh(PhSensorRawPh(voltage), TemperatureOfText(stateStr))
             IN  /\ ph_voltage_' = voltage
                 /\ ph_value_' = ph
                 /\ alert' = [alert EXCEPT ![p] =
                                 IF PhAlert(ph)
                                 THEN [about |-> "ph", value |-> FormatFixed2(ph)]
                                 ELSE NoAlert]
                 /\ pc' = [pc EXCEPT ![p] = "PhSensor_vTaskDelay"]
                 /\ UNCHANGED <<wireVars, handlerVars, registryVars, temperature_, tds_voltage_,
                                tds_value_, conductivity_, timerVars, line, timerLocals, unitVars, localVars, aborted,
                                ghostVars>>
       \/ Abort(p)

\* PhSensor::SensorTask: vTaskDelay(5000) is over.
PhSensorWake ==
    /\ aborted = "no" /\ pc["ph_task"] = "PhSensor_vTaskDelay"
    /\ pc' = [pc EXCEPT !["ph_task"] = "PhSensor_UpdatePhValue"]
    /\ UNCHANGED <<wireVars, handlerVars, registryVars, temperature_, adcVars, timerVars, line, timerLocals, unitVars,
                   localVars, alert, aborted, ghostVars>>

\* TdsSensor::~TdsSensor: vTaskDelete(sensor_task_), then
\* adc_oneshot_del_unit(adc_handle_), the handle being the registry's. Deleting a
\* unit already deleted is a use of freed memory: it may pass or fail.
DestroyTdsSensor ==
    /\ aborted = "no"
    /\ pc["tds_task"] \in {"TdsSensor_UpdateTdsValue", "TdsSensor_vTaskDelay"}
    /\ pc' = [pc EXCEPT !["tds_task"] = "deleted"]
    /\ units' = units \ {adc_handle_["TdsSensor"]}
    /\ adc_handle_' = [adc_handle_ EXCEPT !["TdsSensor"] = nullptr]
    /\ UNCHANGED <<wireVars, handlerVars, registryVars, temperature_, adcVars, timerVars, line, timerLocals,
                   localVars, alert, aborted, ghostVars>>

\* TdsSensor::TdsSensor run again (CreateThing("TdsSensor")): InitializeTDSChannel
\* takes thing_manager.adc_handle_ and configures its channel on it under
\* ESP_ERROR_CHECK, then the task is created. On a deleted unit the call may
\* pass or fail.
CreateTdsSensor ==
    /\ aborted = "no" /\ pc["tds_task"] = "deleted"
    /\ \/ /\ adc_handle_' = [adc_handle_ EXCEPT !["TdsSensor"] = adc_handle_["ThingManager"]]
          /\ tds_voltage_' = 0 /\ tds_value_' = 0 /\ conductivity_' = 0
          /\ pc' = [pc EXCEPT !["tds_task"] = "TdsSensor_UpdateTdsValue"]
          /\ UNCHANGED <<wireVars, handlerVars, registryVars, temperature_, ph_voltage_, ph_value_,
                         timerVars, line, timerLocals, units, localVars, alert, aborted, ghostVars>>
       \/ /\ adc_handle_["ThingManager"] \notin units
          /\ Abort("tds_task")

\* ---------------------------------------------------- TemperatureSensor

\* The scratchpad's bytes 0 and 1 taken as an unsigned 16-bit value.
RawUnsigned(byte0, byte1) == byte1 * 256 + byte0

\* The scratchpad's bytes 0 and 1 as a 16-bit signed value: int16_t raw = (data[1] << 8) | data[0].
RawOfScratchpad(byte0, byte1) ==
    LET u == byte1 * 256 + byte0 IN IF u >= 32768 THEN u - 65536 ELSE u

\* raw / 16.0f
TemperatureOfRaw(raw) == raw * (Scale \div 16)

\* Where a caller of ReadTemperature goes once the value is stored.
AfterTemperature(p) == IF p = "temp_task" THEN "vTaskDelay" ELSE "idle"

\* ReadTemperature, first half: OneWireReset, WriteByte(0xCC), WriteByte(0x44).
StartConversion(p) ==
    /\ aborted = "no" /\ pc[p] = "ReadTemperature"
    /\ pc' = [pc EXCEPT ![p] = "conversion"]
    /\ UNCHANGED <<wireVars, handlerVars, registryVars, temperature_, adcVars, timerVars, line, timerLocals, unitVars,
                   localVars, alert, aborted, ghostVars>>

\* esp_rom_delay_us(750000) is over; OneWireReset, WriteByte(0xCC), WriteByte(0xBE),
\* the nine ReadByte calls, and the value raw / 16.0f is returned.
ReadScratchpad(p) ==
    /\ aborted = "no" /\ pc[p] = "conversion"
    /\ \E d \in Scratchpads :
          temp' = [temp EXCEPT ![p] = TemperatureOfRaw(RawOfScratchpad(d[1], d[2]))]
    /\ pc' = [pc EXCEPT ![p] = "store_temperature"]
    /\ UNCHANGED <<wireVars, time_range, registryVars, temperature_, adcVars, timerVars, line, timerLocals, unitVars,
                   localVars, alert, aborted, ghostVars>>

\* sensor->temperature_ = temp (SensorTask); temperature_ = ReadTemperature() (Refresh).
StoreTemperature(p) ==
    /\ aborted = "no" /\ pc[p] = "store_temperature"
    /\ temperature_' = temp[p]
    /\ temp' = [temp EXCEPT ![p] = 0]
    /\ pc' = [pc EXCEPT ![p] = AfterTemperature(p)]
    /\ UNCHANGED <<wireVars, time_range, registryVars, adcVars, timerVars, line, timerLocals, unitVars, localVars, alert,
                   aborted, ghostVars>>

\* TemperatureSensor::SensorTask: vTaskDelay(2000) is over, the loop reads again.
TemperatureTaskWake ==
    /\ aborted = "no" /\ pc["temp_task"] = "vTaskDelay"
    /\ pc' = [pc EXCEPT !["temp_task"] = "ReadTemperature"]
    /\ UNCHANGED <<wireVars, handlerVars, registryVars, temperature_, adcVars, timerVars, line, timerLocals, unitVars,
                   localVars, alert, aborted, ghostVars>>

TemperatureStep(p) == StartConversion(p) \/ ReadScratchpad(p) \/ StoreTemperature(p)

\* ------------------------------------------------ the one-wire transaction

\* ReadTemperature, OneWireReset, WriteByte and ReadByte slot by slot. (StartConversion
\* and ReadScratchpad above are the same statements, each half of the transaction
\* taken in one step.)

\* What occupies the line, slot after slot.
ResetSlot == "reset"
WaitSlot == "wait"
WriteSlot(bit) == IF bit = 1 THEN "w1" ELSE "w0"
ReadSlot(bit) == IF bit = 1 THEN "r1" ELSE "r0"

\* WriteBit handed the top bit of the byte.
HighBit(b) == (b \div 128) % 2

\* WriteByte: WriteBit(byte & 0x01); byte >>= 1.
LowBit(b) == b % 2
ShiftRight(b) == b \div 2

\* ReadByte: byte |= (ReadBit() << i), in a uint8_t.
OrShifted(b, bit, k) == IF (b \div 2^k) % 2 = 1 THEN b ELSE (b + bit * 2^k) % 256

\* A statement of ReadTemperature: its call, and WriteByte's argument.
Statement(op, b) == [op |-> op, byte |-> b]

\* A transaction that asks for the scratchpad without a second reset, and reads
\* eight bytes.
ReadTemperatureShort ==
    <<Statement("OneWireReset", 0), Statement("WriteByte", 204), Statement("WriteByte", 68),
      Statement("esp_rom_delay_us", 0),
      Statement("WriteByte", 204), Statement("WriteByte", 190)>>
    \o [k \in 1 .. 8 |-> Statement("ReadByte", 0)]

\* ReadTemperature's statements in their order: OneWireReset, WriteByte(0xCC),
\* WriteByte(0x44), esp_rom_delay_us(750000), OneWireReset, WriteByte(0xCC),
\* WriteByte(0xBE), and ReadByte nine times.
ReadTemperatureSteps ==
    <<Statement("OneWireReset", 0), Statement("WriteByte", 204), Statement("WriteByte", 68),
      Statement("esp_rom_delay_us", 0),
      Statement("OneWireReset", 0), Statement("WriteByte", 204), Statement("WriteByte", 190)>>
    \o [k \in 1 .. 9 |-> Statement("ReadByte", 0)]

\* WriteByte(b) followed by ReadByte on a line that returns what was sent: b is
\* the scratchpad's first byte.
FramingSteps == <<Statement("WriteByte", scratchpad[1]), Statement("ReadByte", 0)>>

StepsOf(p) == IF pc[p] = "framing" THEN FramingSteps ELSE ReadTemperatureSteps
OnWire(p) ==
    /\ aborted = "no" /\ pc[p] \in {"ReadTemperature", "framing"}
    /\ step[p] <= Len(StepsOf(p))
Current(p) == StepsOf(p)[step[p]]

\* The line's record, begun anew with the first slot of a transaction.
Logged(p, slot) == Append(IF step[p] = 1 /\ i[p] = 0 THEN <<>> ELSE wire, slot)

\* The statement is done: the next one is called; WriteByte gets its argument.
ByteOfNext(p) ==
    IF step[p] < Len(StepsOf(p)) /\ StepsOf(p)[step[p] + 1].op = "WriteByte"
    THEN StepsOf(p)[step[p] + 1].byte ELSE 0

\* gpio_get_level in read slot i: the thermometer sends the scratchpad's next
\* byte, lowest bit first; the looped line returns the bit sent in write slot i.
Level(p) ==
    IF pc[p] = "framing"
    THEN IF wire[i[p] + 1] = WriteSlot(1) THEN 1 ELSE 0
    ELSE (scratchpad[Len(data[p]) + 1] \div 2^(i[p])) % 2

\* The temperatures a conversion may leave in the scratchpad.
Conversions == {d \o ScratchpadTail : d \in Scratchpads}

WireReset(p) ==
    /\ OnWire(p) /\ Current(p).op = "OneWireReset"
    /\ wire' = Logged(p, ResetSlot)
    /\ step' = [step EXCEPT ![p] = @ + 1]
    /\ byte' = [byte EXCEPT ![p] = ByteOfNext(p)]
    /\ UNCHANGED <<scratchpad, data, handlerVars, registryVars, temperature_, adcVars, timerVars,
                   line, timerLocals, unitVars, pc, localVars, alert, aborted, ghostVars>>

\* One turn of WriteByte's loop.
WireWriteBit(p) ==
    /\ OnWire(p) /\ Current(p).op = "WriteByte"
    /\ wire' = Logged(p, WriteSlot(LowBit(byte[p])))
    /\ IF i[p] < 7
       THEN /\ byte' = [byte EXCEPT ![p] = ShiftRight(@)]
            /\ i' = [i EXCEPT ![p] = @ + 1]
            /\ UNCHANGED step
       ELSE /\ byte' = [byte EXCEPT ![p] = ByteOfNext(p)]
            /\ i' = [i EXCEPT ![p] = 0]
            /\ step' = [step EXCEPT ![p] = @ + 1]
    /\ UNCHANGED <<scratchpad, data, handlerVars, registryVars, temperature_, adcVars, timerVars,
                   line, timerLocals, unitVars, pc, adc_reading, temperature, compensationVoltage, raw_ph, alert,
                   aborted, ghostVars>>

\* esp_rom_delay_us(750000): the thermometer converts meanwhile.
WireDelay(p) ==
    /\ OnWire(p) /\ Current(p).op = "esp_rom_delay_us"
    /\ wire' = Logged(p, WaitSlot)
    /\ scratchpad' \in Conversions
    /\ step' = [step EXCEPT ![p] = @ + 1]
    /\ byte' = [byte EXCEPT ![p] = ByteOfNext(p)]
    /\ UNCHANGED <<data, handlerVars, registryVars, temperature_, adcVars, timerVars,
                   line, timerLocals, unitVars, pc, localVars, alert, aborted, ghostVars>>

\* One turn of ReadByte's loop; after the eighth the byte goes to data[].
WireReadBit(p) ==
    /\ OnWire(p) /\ Current(p).op = "ReadByte"
    /\ wire' = Logged(p, ReadSlot(Level(p)))
    /\ IF i[p] < 7
       THEN /\ byte' = [byte EXCEPT ![p] = OrShifted(@, Level(p), i[p])]
            /\ i' = [i EXCEPT ![p] = @ + 1]
            /\ UNCHANGED <<step, data>>
       ELSE /\ data' = [data EXCEPT ![p] = Append(@, OrShifted(byte[p], Level(p), i[p]))]
            /\ byte' = [byte EXCEPT ![p] = ByteOfNext(p)]
            /\ i' = [i EXCEPT ![p] = 0]
            /\ step' = [step EXCEPT ![p] = @ + 1]
    /\ UNCHANGED <<scratchpad, handlerVars, registryVars, temperature_, adcVars, timerVars,
                   line, timerLocals, unitVars, pc, adc_reading, temperature, compensationVoltage, raw_ph, alert,
                   aborted, ghostVars>>

\* int16_t raw = (data[1] << 8) | data[0]; return raw / 16.0f.
WireDecode(p) ==
    /\ aborted = "no" /\ pc[p] = "ReadTemperature"
    /\ step[p] = Len(ReadTemperatureSteps) + 1
    /\ temp' = [temp EXCEPT ![p] = TemperatureOfRaw(RawOfScratchpad(data[p][1], data[p][2]))]
    /\ pc' = [pc EXCEPT ![p] = "store_temperature"]
    /\ step' = [step EXCEPT ![p] = 1]
    /\ data' = [data EXCEPT ![p] = <<>>]
    /\ UNCHANGED <<scratchpad, wire, byte, time_range, registryVars, temperature_, adcVars,
                   timerVars, line, timerLocals, unitVars, localVars, alert, aborted, ghostVars>>

WireStep(p) ==
    \/ WireReset(p) \/ WireWriteBit(p) \/ WireDelay(p) \/ WireReadBit(p) \/ WireDecode(p)

\* ----------------------------------------------------------------- Timer

\* The addTimer calls that are counted.
MaxCalls == 2

\* timer_end_time_ = time(NULL) + time_range
AddTimerEnd ==
    /\ aborted = "no" /\ pc["dispatch"] = "addTimer"
    /\ timer_end_time_' = now + time_range
    /\ calls' = IF calls < MaxCalls THEN calls + 1 ELSE calls   \* counted up to MaxCalls
    /\ pc' = [pc EXCEPT !["dispatch"] = "addTimer_toggle"]
    /\ UNCHANGED <<wireVars, handlerVars, registryVars, temperature_, adcVars, toggle_timer_, now,
                   line, unitVars, localVars, alert, aborted, ghostVars>>
    /\ UNCHANGED <<timer_now, tested, notified, completions>>

\* toggle_timer_ = true
AddTimerToggle ==
    /\ aborted = "no" /\ pc["dispatch"] = "addTimer_toggle"
    /\ toggle_timer_' = TRUE
    /\ pc' = [pc EXCEPT !["dispatch"] = "addTimer_notify"]
    /\ UNCHANGED <<wireVars, handlerVars, registryVars, temperature_, adcVars, timer_end_time_, now,
                   line, timerLocals, unitVars, localVars, alert, aborted, ghostVars>>

\* notify(message): app.Schedule(... Alert ...); addTimer returns.
AddTimerNotify ==
    /\ aborted = "no" /\ pc["dispatch"] = "addTimer_notify"
    /\ alert' = [alert EXCEPT !["dispatch"] =
                    [about |-> "timer set",
                     value |-> [negative |-> FALSE, integer |-> timer_end_time_, fraction |-> 0]]]
    /\ time_range' = 0
    /\ pc' = [pc EXCEPT !["dispatch"] = "idle"]
    /\ UNCHANGED <<wireVars, temp, registryVars, temperature_, adcVars, timerVars, line, timerLocals, unitVars, localVars,
                   aborted, ghostVars>>

AddTimerStep == AddTimerEnd \/ AddTimerToggle \/ AddTimerNotify

\* A timer that stays armed after its completion has been notified.
KeptToggle == TRUE

\* timer->toggle_timer_ = false
ClearedToggle == FALSE

\* TimerTask: vTaskDelay(1000) is over (or the task starts); time_t now = time(NULL).
TimerWake ==
    /\ aborted = "no" /\ pc["timer_task"] = "vTaskDelay"
    /\ timer_now' = now
    /\ pc' = [pc EXCEPT !["timer_task"] = "timer_test_toggle"]
    /\ UNCHANGED <<wireVars, handlerVars, registryVars, temperature_, adcVars, timerVars, line,
                   unitVars, calls, tested, notified, completions, localVars, alert, aborted,
                   ghostVars>>

\* if (timer->toggle_timer_ && ...): the left operand.
TimerTestToggle ==
    /\ aborted = "no" /\ pc["timer_task"] = "timer_test_toggle"
    /\ pc' = [pc EXCEPT !["timer_task"] = IF toggle_timer_ THEN "timer_test_end" ELSE "vTaskDelay"]
    /\ UNCHANGED <<wireVars, handlerVars, registryVars, temperature_, adcVars, timerVars, line,
                   unitVars, timerLocals, localVars, alert, aborted, ghostVars>>

\* ... && timer->timer_end_time_ <= now: the right operand.
TimerTestEnd ==
    /\ aborted = "no" /\ pc["timer_task"] = "timer_test_end"
    /\ tested' = calls
    /\ pc' = [pc EXCEPT !["timer_task"] =
                 IF timer_end_time_ <= timer_now THEN "timer_notify" ELSE "vTaskDelay"]
    /\ UNCHANGED <<wireVars, handlerVars, registryVars, temperature_, adcVars, timerVars, line,
                   unitVars, timer_now, calls, notified, completions, localVars, alert, aborted,
                   ghostVars>>

\* timer->notify("计时完成!"): app.Schedule(... Alert ...).
TimerNotify ==
    /\ aborted = "no" /\ pc["timer_task"] = "timer_notify"
    /\ alert' = [alert EXCEPT !["timer_task"] =
                    [about |-> "timer done",
                     value |-> [negative |-> FALSE, integer |-> timer_now, fraction |-> 0]]]
    /\ completions' = completions + 1
    /\ notified' = tested
    /\ pc' = [pc EXCEPT !["timer_task"] = "timer_clear"]
    /\ UNCHANGED <<wireVars, handlerVars, registryVars, temperature_, adcVars, timerVars, line,
                   unitVars, timer_now, calls, tested, localVars, aborted, ghostVars>>

\* timer->toggle_timer_ = false; then vTaskDelay(1000).
TimerClear ==
    /\ aborted = "no" /\ pc["timer_task"] = "timer_clear"
    /\ toggle_timer_' = ClearedToggle
    /\ pc' = [pc EXCEPT !["timer_task"] = "vTaskDelay"]
    /\ UNCHANGED <<wireVars, handlerVars, registryVars, temperature_, adcVars, timer_end_time_, now,
                   line, unitVars, timerLocals, localVars, alert, aborted, ghostVars>>

TimerStep == TimerWake \/ TimerTestToggle \/ TimerTestEnd \/ TimerNotify \/ TimerClear

\* time(NULL) moves on by a second, up to MaxTime.
MaxTime == 3
Tick ==
    /\ aborted = "no" /\ now < MaxTime
    /\ now' = now + 1
    /\ UNCHANGED <<wireVars, handlerVars, registryVars, temperature_, adcVars, toggle_timer_,
                   timer_end_time_, line, unitVars, timerLocals, pc, localVars, alert, aborted,
                   ghostVars>>

\* ---------------------------------------------------------- ThingManager

\* Registrations in which addTimer's time_range is optional.
MethodsWithOptionalTimeRange(thing) ==
    CASE thing = "TemperatureSensor" -> [Refresh |-> {}]
      [] thing = "AdcSensor" -> [RefreshTds |-> {}, RefreshPh |-> {}]
      [] thing = "Timer" ->
            [addTimer |-> {[name |-> "time_range", type |-> "number", required |-> FALSE]}]
      [] OTHER -> <<>>

\* The methods each constructor registers, with their declared parameters.
MethodsOf(thing) ==
    CASE thing = "TemperatureSensor" -> [Refresh |-> {}]
      [] thing = "AdcSensor" -> [RefreshTds |-> {}, RefreshPh |-> {}]
      [] thing = "Timer" ->
            [addTimer |-> {[name |-> "time_range", type |-> "number", required |-> TRUE]}]
      [] OTHER -> <<>>

\* The first statement of each method's handler.
HandlerOf(method) ==
    CASE method = "Refresh" -> "ReadTemperature"
      [] method = "RefreshTds" -> "UpdateTdsValue"
      [] method = "RefreshPh" -> "UpdatePhValue"
      [] OTHER -> "addTimer"

\* A command names a registered Thing and one of its methods, and gives every
\* required parameter with the declared type.
ThingFound(command) == command.name \in things_
MethodFound(command) == command.method \in DOMAIN MethodsOf(command.name)
ParametersValid(command) ==
    \A param \in MethodsOf(command.name)[command.method] :
        param.required =>
            /\ param.name \in DOMAIN command.parameters
            /\ command.parameters[param.name].type = param.type

\* parameters["time_range"].number(): the number the handler is handed.
NumberOf(parameters, key) ==
    IF key \in DOMAIN parameters /\ parameters[key].type = "number"
    THEN parameters[key].number ELSE 0

\* ThingManager::Invoke(command): the command is dropped, or its handler runs.
Invoke(command) ==
    /\ aborted = "no" /\ pc["dispatch"] = "idle"
    /\ IF ThingFound(command) /\ MethodFound(command) /\ ParametersValid(command)
       THEN /\ pc' = [pc EXCEPT !["dispatch"] = HandlerOf(command.method)]
            /\ time_range' = IF command.method = "addTimer"
                             THEN NumberOf(command.parameters, "time_range") ELSE 0
            /\ outcome' = [outcome EXCEPT !.result = "handler", !.command = command]
       ELSE /\ outcome' = [result |-> "dropped", command |-> command, dropped |-> TRUE]
            /\ UNCHANGED <<wireVars, pc, time_range>>
    /\ UNCHANGED <<wireVars, temp, registryVars, temperature_, adcVars, timerVars, line, timerLocals, unitVars, localVars,
                   alert, aborted, sampled, alone, lastFinal>>

\* A state read that stores the snapshots only when it is asked for the changes.
GetStatesJsonStoresOnDelta(delta) ==
    /\ aborted = "no" /\ pc["dispatch"] = "idle"
    /\ json' = [thing \in {t \in things_ :
                               \/ ~delta
                               \/ t \notin DOMAIN last_states_
                               \/ last_states_[t] # StateJson(t)} |-> StateJson(thing)]
    /\ last_states_' = IF delta THEN [thing \in things_ |-> StateJson(thing)] ELSE last_states_
    /\ outcome' = [outcome EXCEPT !.result = IF delta THEN "changed states" ELSE "all states",
                                  !.command = NoCommand]
    /\ UNCHANGED <<wireVars, handlerVars, things_, temperature_, adcVars, timerVars, line, timerLocals, unitVars, pc,
                   localVars, alert, aborted, sampled, alone, lastFinal>>

\* ThingManager::GetStatesJson(json, delta): the answer holds every Thing, or with
\* delta those whose state text differs from the stored one; every state text is stored.
GetStatesJson(delta) ==
    /\ aborted = "no" /\ pc["dispatch"] = "idle"
    /\ json' = [thing \in {t \in things_ :
                               \/ ~delta
                               \/ t \notin DOMAIN last_states_
                               \/ last_states_[t] # StateJson(t)} |-> StateJson(thing)]
    /\ last_states_' = [thing \in things_ |-> StateJson(thing)]
    /\ outcome' = [outcome EXCEPT !.result = IF delta THEN "changed states" ELSE "all states",
                                  !.command = NoCommand]
    /\ UNCHANGED <<wireVars, handlerVars, things_, temperature_, adcVars, timerVars, line, timerLocals, unitVars, pc,
                   localVars, alert, aborted, sampled, alone, lastFinal>>

\* ------------------------------------------------------------------ start

\* Where each task stands once the Things are constructed: AdcSensor's task at
\* its first UpdateTdsValue, the thermometer's task (if the Thing exists) at its
\* first ReadTemperature, Timer's task in its delay, the dispatch path idle.
TaskStart(registered) ==
    [p \in Procs |-> CASE p = "tds_task" -> IF "TdsSensor" \in registered
                                            THEN "TdsSensor_UpdateTdsValue" ELSE "UpdateTdsValue"
                       [] p = "ph_task" -> IF "PhSensor" \in registered
                                           THEN "PhSensor_UpdatePhValue" ELSE "none"
                       [] p = "dispatch" -> "idle"
                       [] p = "temp_task" -> IF "TemperatureSensor" \in registered
                                             THEN "ReadTemperature" ELSE "none"
                       [] OTHER -> "vTaskDelay"]

\* AdcSensor's readings as their initializers leave them.
AdcFields ==
    /\ tds_voltage_ = 0 /\ tds_value_ = 0 /\ conductivity_ = 0
    /\ ph_voltage_ = 0 /\ ph_value_ = 7 * Scale

\* The other fields and the callers' locals once the Things are constructed and
\* registered.
OtherFields(registered, codes) ==
    /\ things_ = registered
    /\ last_states_ = <<>>
    /\ json = <<>>
    /\ toggle_timer_ = FALSE /\ timer_end_time_ = 0 /\ now = 0
    /\ line = codes
    /\ i = [p \in Procs |-> 0]
    /\ adc_reading = [p \in Procs |-> 0]
    /\ temperature = [p \in Procs |-> 0]
    /\ compensationVoltage = [p \in Procs |-> 0]
    /\ raw_ph = [p \in Procs |-> 0]
    /\ temp = [p \in Procs |-> 0]
    /\ time_range = 0
    /\ alert = [p \in Procs |-> NoAlert]
    /\ aborted = "no"
    /\ sampled = [p \in Procs |-> {}]
    /\ alone = [p \in Procs |-> TRUE]
    /\ lastFinal = InitialPublished
    /\ outcome = NoOutcome
    /\ adc_handle_ = ConstructedHandles(registered)
    /\ units = {adc_handle_[h] : h \in Holders} \ {nullptr}
    /\ timer_now = 0 /\ calls = 0 /\ tested = 0 /\ notified = 0 /\ completions = 0

\* The state once the Things are constructed and registered: every field has its
\* initializer's value.
Fields(registered, codes) == OtherFields(registered, codes) /\ AdcFields

\* The one-wire line after construction: nothing sent yet, the thermometer
\* holding its power-on scratchpad.
WireIdle ==
    /\ scratchpad = PowerOnScratchpad
    /\ wire = <<>>
    /\ step = [p \in Procs |-> 1]
    /\ byte = [p \in Procs |-> 0]
    /\ data = [p \in Procs |-> <<>>]

Boot(registered, codes) == Fields(registered, codes) /\ WireIdle

\* The converter's lines: a code on each channel.
Lines == {l \in [Channels -> TdsCodes \cup PhCodes] :
             l[tds_channel_] \in TdsCodes /\ l[ph_channel_] \in PhCodes}

\* The deployments: AdcSensor and Timer, with or without a TemperatureSensor.
Deployments == {Things, Things \ {"TemperatureSensor"}}

\* The state after construction: temperature_ = 0.0f.
Start ==
    /\ \E registered \in Deployments, codes \in Lines : Boot(registered, codes)
    /\ temperature_ = 0
    /\ pc = TaskStart(things_)

\* --------------------------------------- the converter and its two callers

\* AdcSensor's task and the dispatch path (RefreshTds, RefreshPh) while the
\* thermometer's task is in its delay: the temperature it last stored, if the
\* Thing exists, is 0.0 (none yet), 25.0 or 85.0.
StoredTemperatures == {0} \cup {TemperatureOfRaw(RawOfScratchpad(d[1], d[2])) : d \in Scratchpads}

AdcCommands ==
    {Command("AdcSensor", "RefreshTds", NoParameters),
     Command("AdcSensor", "RefreshPh", NoParameters)}

InitAdc ==
    /\ \E registered \in Deployments, codes \in Lines : Boot(registered, codes)
    /\ temperature_ \in IF "TemperatureSensor" \in things_ THEN StoredTemperatures ELSE {0}
    /\ pc = [TaskStart(things_) EXCEPT !["temp_task"] =
                IF "TemperatureSensor" \in things_ THEN "vTaskDelay" ELSE "none"]

NextAdc ==
    \/ AdcTaskWake
    \/ \E p \in {"tds_task", "dispatch"} : CycleStep(p)
    \/ \E command \in AdcCommands : Invoke(command)

SpecAdc == InitAdc /\ [][NextAdc]_vars

\* ------------------------------------------ the cycles at the thresholds

\* Codes that put the conductivity just under and just over 100 (99.88, 100.07)
\* and the pH on and just beyond its limits (10.01, 10.00, 4.00, 3.99), at 25.0 C.
AlertTdsCodes == {475, 476}
AlertPhCodes == {1793, 1794, 2326, 2327}
AlertLines == {l \in [Channels -> AlertTdsCodes \cup AlertPhCodes] :
                  l[tds_channel_] \in AlertTdsCodes /\ l[ph_channel_] \in AlertPhCodes}

\* AdcSensor's task and the dispatch path as in SpecAdc, the thermometer having
\* stored 25.0 C.
InitAlert ==
    /\ \E codes \in AlertLines : Boot(Things, codes)
    /\ temperature_ = 25 * Scale
    /\ pc = [TaskStart(things_) EXCEPT !["temp_task"] = "vTaskDelay"]

SpecAlert == InitAlert /\ [][NextAdc]_vars

\* ------------------------------------------- the converter's task alone

\* AdcSensor's task with no other caller of the converter, over codes that give
\* 0.0128 V and 1.0 V on the TDS channel and 0 V, 1.66 V and 3.3 V on the pH
\* channel, the thermometer having stored 0.0 (none yet), 25.0 or 85.0 C.
CycleTdsCodes == {16, 1241}
CyclePhCodes == {0, 2060, MaxCode}
CycleLines == {l \in [Channels -> CycleTdsCodes \cup CyclePhCodes] :
                  l[tds_channel_] \in CycleTdsCodes /\ l[ph_channel_] \in CyclePhCodes}

InitCycle ==
    /\ \E codes \in CycleLines : Boot(Things, codes)
    /\ temperature_ \in StoredTemperatures
    /\ pc = [TaskStart(things_) EXCEPT !["temp_task"] = "vTaskDelay"]

NextCycle == AdcTaskWake \/ CycleStep("tds_task")

SpecCycle == InitCycle /\ [][NextCycle]_vars

\* --------------------------------------------- the probes, each alone

\* A deployment with AdcSensor (as in SpecCycle) or one with TdsSensor and
\* PhSensor, over the same codes and stored temperatures.
InitVariants ==
    /\ \E codes \in CycleLines : Boot(VariantThings, codes)
    /\ temperature_ \in StoredTemperatures
    /\ pc = [TaskStart(things_) EXCEPT !["temp_task"] = "vTaskDelay"]

InitProbes == InitCycle \/ InitVariants

NextProbes ==
    \/ NextCycle
    \/ TdsSensorUpdate \/ TdsSensorWake
    \/ PhSensorUpdate \/ PhSensorWake

SpecProbes == InitProbes /\ [][NextProbes]_vars

\* ------------------------------------- the probes created and destroyed

\* TdsSensor and PhSensor running, TdsSensor destroyed and created again.
NextHandles ==
    \/ TdsSensorUpdate \/ TdsSensorWake
    \/ PhSensorUpdate \/ PhSensorWake
    \/ DestroyTdsSensor \/ CreateTdsSensor

SpecHandles == InitVariants /\ [][NextHandles]_vars

\* ------------------------------------------------ the rounding steps

\* The values handed to the rounding: every value from 0 to MaxInput / 10000 in
\* steps of 0.0001, and as many spread up to 997 times that.
MaxInput == 500
RoundInputs == (0 .. MaxInput) \cup {x * 997 : x \in 0 .. MaxInput}

\* A cycle of AdcSensor's task about to round: UpdateTdsValue with tds_value_
\* and conductivity_ computed, or UpdatePhValue with ph_value_ computed.
InitRound ==
    /\ OtherFields(Things, CHOOSE codes \in CycleLines : TRUE) /\ WireIdle
    /\ temperature_ = 25 * Scale
    /\ tds_voltage_ = 0 /\ ph_voltage_ = 0
    /\ \E x \in RoundInputs :
          \/ /\ pc = [TaskStart(things_) EXCEPT !["temp_task"] = "vTaskDelay", !["tds_task"] = "tds_round"]
             /\ tds_value_ = x /\ conductivity_ = ConductivityOfTds(x) /\ ph_value_ = 7 * Scale
          \/ /\ pc = [TaskStart(things_) EXCEPT !["temp_task"] = "vTaskDelay", !["tds_task"] = "ph_round"]
             /\ tds_value_ = 0 /\ conductivity_ = 0 /\ ph_value_ = x

NextRound == TdsRound("tds_task") \/ ConductivityRound("tds_task") \/ PhRound("tds_task")

SpecRound == InitRound /\ [][NextRound]_vars

\* ----------------------------------- the converter's task and state reads

\* AdcSensor's task while the dispatch path answers state reads.
NextRead ==
    \/ AdcTaskWake
    \/ CycleStep("tds_task")
    \/ \E delta \in BOOLEAN : GetStatesJson(delta)

SpecRead == InitAdc /\ [][NextRead]_vars

\* ------------------------------- the converter's task and the thermometer

\* AdcSensor's task looks the temperature up while the thermometer's task stores it.
NextLookup ==
    \/ AdcTaskWake
    \/ CycleStep("tds_task")
    \/ TemperatureTaskWake
    \/ TemperatureStep("temp_task")

SpecLookup == Start /\ [][NextLookup]_vars

\* The same under the scheduler's guarantee: each task, mostly in its delay, gets
\* the processor again and again (FreeRTOS runs the ready task of highest
\* priority, and each task blocks in vTaskDelay every cycle).
SpecLookupFair ==
    /\ Start /\ [][NextLookup]_vars
    /\ WF_vars(AdcTaskWake \/ CycleStep("tds_task"))
    /\ WF_vars(TemperatureTaskWake \/ TemperatureStep("temp_task"))

\* ------------------------------------------- the registry and its commands

\* The commands the dispatch path is handed: well-formed ones, and ones that
\* name no Thing, no method of the Thing, or lack or mistype a required parameter.
RegistryCommands ==
    {Command("TemperatureSensor", "Refresh", NoParameters),
     Command("Timer", "addTimer", Parameter("time_range", JNumber(1))),
     Command("Timer", "addTimer", NoParameters),
     Command("Timer", "addTimer", Parameter("time_range", JString("1"))),
     Command("Lamp", "TurnOn", NoParameters),
     Command("TemperatureSensor", "TurnOn", NoParameters)}

\* The thermometer's task, and the dispatch path with commands and state reads.
NextRegistry ==
    \/ TemperatureTaskWake
    \/ \E p \in {"temp_task", "dispatch"} : TemperatureStep(p)
    \/ AddTimerStep
    \/ \E command \in RegistryCommands : Invoke(command)
    \/ \E delta \in BOOLEAN : GetStatesJson(delta)

SpecRegistry == Start /\ [][NextRegistry]_vars

\* --------------------------------------------- the thermometer on its line

\* The thermometer's task, its transactions slot by slot.
NextWire ==
    \/ WireStep("temp_task")
    \/ StoreTemperature("temp_task")
    \/ TemperatureTaskWake

SpecWire == Start /\ [][NextWire]_vars

\* ------------------------------------------------ Timer and its task

\* addTimer commands with a time_range of 0 or 1 second, MaxCalls of them.
TimeRanges == {0, 1}
TimerCommands ==
    {Command("Timer", "addTimer", Parameter("time_range", JNumber(k))) : k \in TimeRanges}

InitTimer ==
    /\ Boot(Things, CHOOSE codes \in Lines : TRUE)
    /\ temperature_ = 0
    /\ pc = TaskStart(things_)

\* The dispatch path takes an addTimer command.
AddTimerCall == calls < MaxCalls /\ \E command \in TimerCommands : Invoke(command)

NextTimer == Tick \/ TimerStep \/ AddTimerStep \/ AddTimerCall

SpecTimer == InitTimer /\ [][NextTimer]_vars

\* The same under the scheduler's guarantee: TimerTask and the dispatch path get
\* the processor again and again, and time passes.
SpecTimerFair ==
    /\ InitTimer /\ [][NextTimer]_vars
    /\ WF_vars(TimerStep) /\ WF_vars(AddTimerStep) /\ WF_vars(Tick)

\* ------------------------------------- the thermometer's two callers

\* A caller has begun a transaction (its first slot is on the line) and has not
\* yet computed the result.
InTransaction(p) == pc[p] = "ReadTemperature" /\ (step[p] > 1 \/ i[p] > 0)

\* A caller is outside a transaction or in its 750 ms wait, where a transaction
\* spends nearly all of its time.
AtWait(p) == InTransaction(p) => (step[p] <= Len(ReadTemperatureSteps) /\ Current(p).op = "esp_rom_delay_us")

RefreshCommand == Command("TemperatureSensor", "Refresh", NoParameters)

\* The task and the Refresh handler (dispatch path), neither holding anything
\* while it uses the pin. Of all their interleavings those are taken in which
\* one caller runs while the other is outside a transaction or in its wait.
NextBus ==
    \/ /\ AtWait("dispatch")
       /\ WireStep("temp_task") \/ StoreTemperature("temp_task") \/ TemperatureTaskWake
    \/ /\ AtWait("temp_task")
       /\ WireStep("dispatch") \/ StoreTemperature("dispatch")
    \/ Invoke(RefreshCommand)

SpecBus == Start /\ [][NextBus]_vars

\* WriteByte(b) and ReadByte on a looped line, for every byte b.
Bytes == 0 .. 255

InitFrame ==
    /\ \E codes \in Lines : Fields(Things, codes)
    /\ temperature_ = 0
    /\ pc = [TaskStart(Things) EXCEPT !["temp_task"] = "framing"]
    /\ \E b \in Bytes : scratchpad = <<b>> \o Tail(PowerOnScratchpad)
    /\ wire = <<>>
    /\ step = [p \in Procs |-> 1]
    /\ byte = [p \in Procs |-> IF p = "temp_task" THEN scratchpad[1] ELSE 0]
    /\ data = [p \in Procs |-> <<>>]

NextFrame == WireWriteBit("temp_task") \/ WireReadBit("temp_task")

SpecFrame == InitFrame /\ [][NextFrame]_vars

\* The decoding of the scratchpad, for every pair of bytes 0 and 1 and two
\* settings of bytes 2..8: the caller has read the nine bytes.
ScratchpadTails == {ScratchpadTail, <<0, 0, 0, 0, 0, 0, 0>>}
AllScratchpads == {<<byte0, byte1>> \o tail : byte0 \in Bytes, byte1 \in Bytes, tail \in ScratchpadTails}

\* The slots of WriteByte(b), and of a whole transaction that reads scratchpad sp.
SlotsOfByte(b) == [k \in 1 .. 8 |-> WriteSlot((b \div 2^(k - 1)) % 2)]
TransactionOf(sp) ==
    <<ResetSlot>> \o SlotsOfByte(204) \o SlotsOfByte(68) \o <<WaitSlot>>
    \o <<ResetSlot>> \o SlotsOfByte(204) \o SlotsOfByte(190)
    \o [k \in 1 .. 72 |-> ReadSlot((sp[(k - 1) \div 8 + 1] \div 2^((k - 1) % 8)) % 2)]

InitDecode ==
    /\ Fields(Things, CHOOSE codes \in Lines : TRUE)
    /\ temperature_ = 0
    /\ pc = TaskStart(Things)
    /\ scratchpad \in AllScratchpads
    /\ wire = TransactionOf(scratchpad)
    /\ step = [p \in Procs |-> IF p = "temp_task" THEN Len(ReadTemperatureSteps) + 1 ELSE 1]
    /\ byte = [p \in Procs |-> 0]
    /\ data = [p \in Procs |-> IF p = "temp_task" THEN scratchpad ELSE <<>>]

NextDecode == WireDecode("temp_task") \/ StoreTemperature("temp_task")

SpecDecode == InitDecode /\ [][NextDecode]_vars

\* ------------------------------ the temperatures and the coefficient

\* Values of int16_t raw: the least and the greatest, the thermometer's range
\* (-55 C, 125 C), 0, 25.0 C, and the values around -25.0 C.
MinRaw == -32768
MaxRaw == 32767
AroundZeroCoefficient == 4
CoefficientRaws ==
    {MinRaw, -880, -1, 0, 400, 2000, MaxRaw}
    \cup ((-400 - AroundZeroCoefficient) .. (-400 + AroundZeroCoefficient))

\* The scratchpad whose bytes 0 and 1 hold raw.
ScratchpadOfRaw(raw) ==
    LET u == IF raw < 0 THEN raw + 65536 ELSE raw
    IN  <<u % 256, u \div 256>> \o ScratchpadTail

\* The thermometer's task has read a scratchpad and decodes and stores it, while
\* AdcSensor's task runs UpdateTdsValue up to the compensated voltage.
InitCoefficient ==
    /\ Fields(Things, CHOOSE codes \in Lines : TRUE)
    /\ temperature_ = 0
    /\ pc = TaskStart(Things)
    /\ \E raw \in CoefficientRaws : scratchpad = ScratchpadOfRaw(raw)
    /\ wire = TransactionOf(scratchpad)
    /\ step = [p \in Procs |-> IF p = "temp_task" THEN Len(ReadTemperatureSteps) + 1 ELSE 1]
    /\ byte = [p \in Procs |-> 0]
    /\ data = [p \in Procs |-> IF p = "temp_task" THEN scratchpad ELSE <<>>]

NextCoefficient ==
    \/ WireDecode("temp_task") \/ StoreTemperature("temp_task")
    \/ EnterReadTds("tds_task") \/ Sample("tds_task") \/ ReturnTdsVoltage("tds_task")
    \/ TdsGetTemperature("tds_task")
    \/ TdsCompensate("tds_task") \/ TdsCompensateByZero("tds_task")

SpecCoefficient == InitCoefficient /\ [][NextCoefficient]_vars

\* ------------------------------------------------------ the whole program

\* Every task and the dispatch path together. The specifications above are its
\* parts: each keeps the tasks a property speaks about and holds the others in
\* their delay.
Init == Start

Next ==
    \/ AdcTaskWake
    \/ \E p \in {"tds_task", "dispatch"} : CycleStep(p)
    \/ TemperatureTaskWake
    \/ \E p \in {"temp_task", "dispatch"} : TemperatureStep(p)
    \/ AddTimerStep
    \/ TimerStep
    \/ Tick
    \/ \E command \in AdcCommands \cup RegistryCommands : Invoke(command)
    \/ \E delta \in BOOLEAN : GetStatesJson(delta)

Spec == Init /\ [][Next]_vars

\* ------------------------------------------- claims about the converter

\* Caller p's read function returns in this step (the firmware did not abort).
ReadReturns(p) == InRead(p) /\ pc'[p] \notin {"ReadTdsVoltage", "ReadPhVoltage", "halted"}
\* The channel the read function caller p stands in is meant to sample.
ChannelOfRead(p) == IF pc[p] = "ReadTdsVoltage" THEN tds_channel_ ELSE ph_channel_
\* The steps of an update cycle that follow its read.
AfterReadSteps ==
    {"tds_GetTemperature", "tds_compensate", "tds_convert", "tds_conductivity", "tds_round",
     "conductivity_round", "tds_alert",
     "ph_GetTemperature", "ph_raw", "ph_compensate", "ph_round", "ph_alert"}

\* C1: at any time at most one caller is in the middle of a multi-sample read
\* burst on the shared converter.
C1_OneBurstAtATime == Cardinality({p \in Procs : InBurst(p)}) <= 1

\* C2: the voltage a read returns for channel c is the average of exactly
\* ADC_SAMPLE_COUNT samples, all of them taken on channel c by that same read.
C2_AverageOfOwnSamples ==
    [][\A p \in Procs :
          ReadReturns(p) =>
              /\ i[p] = ADC_SAMPLE_COUNT
              /\ sampled[p] = {ChannelOfRead(p)}
              /\ adc_reading[p] = ADC_SAMPLE_COUNT * line[ChannelOfRead(p)]
              /\ (IF pc[p] = "ReadTdsVoltage" THEN tds_voltage_' ELSE ph_voltage_')
                     = AverageToVoltage(ADC_SAMPLE_COUNT * line[ChannelOfRead(p)])]_vars

\* A pH read of the dispatch path has returned its own channel's average while the
\* task stood in the middle of its TDS burst.
C2_InterleavedReadReturned ==
    /\ pc["dispatch"] = "ph_GetTemperature"
    /\ pc["tds_task"] = "ReadTdsVoltage" /\ InBurst("tds_task")
    /\ ~alone["dispatch"]
    /\ ph_voltage_ = AverageToVoltage(ADC_SAMPLE_COUNT * line[ph_channel_])
    /\ line[ph_channel_] # line[tds_channel_]

\* C3: a read that never had the converter to itself returns the sentinel -1.0 and
\* has taken no sample.
C3_DeniedReadReturnsSentinel ==
    [][\A p \in Procs :
          (ReadReturns(p) /\ ~alone[p]) =>
              /\ sampled[p] = {}
              /\ (IF pc[p] = "ReadTdsVoltage" THEN tds_voltage_' ELSE ph_voltage_') = Sentinel]_vars

C10_HandlerErrorContained == aborted # "dispatch"

\* --------------------------------------------- claims about state reads

\* This step is a state read (GetStatesJson) that shows in the state.
StateRead ==
    /\ outcome'.result \in {"all states", "changed states"}
    /\ json' # json \/ last_states_' # last_states_ \/ outcome' # outcome
\* Caller p's GetTemperature returns in this step.
LookupReturns(p) ==
    /\ pc[p] \in {"tds_GetTemperature", "ph_GetTemperature"}
    /\ pc'[p] # pc[p] /\ aborted' = "no"
\* The number a reader finds for a property in a Thing's state text.
Observed(text, property) ==
    ParseNumber(cJSON_GetObjectItem(cJSON_GetObjectItem(text.root, "state"), property).number)

\* C5: a state read (GetStatesJson) and a temperature lookup (GetThingStateJson)
\* go through the property accessors only: they move no converter or bus
\* transaction, change no field, and deliver for each property the value its
\* field holds.
C5_AccessorsOnlyRead ==
    [][/\ StateRead =>
             /\ UNCHANGED <<temperature_, adcVars, timerVars>>
             /\ UNCHANGED <<line, pc, i, adc_reading, sampled, temp>>
             /\ "AdcSensor" \in DOMAIN last_states_'
             /\ Observed(last_states_'["AdcSensor"], "tds") = tds_value_
             /\ Observed(last_states_'["AdcSensor"], "conductivity") = conductivity_
             /\ Observed(last_states_'["AdcSensor"], "ph") = ph_value_
             /\ "TemperatureSensor" \in things_ =>
                    Observed(last_states_'["TemperatureSensor"], "temperature") = temperature_
       /\ \A p \in Procs :
             LookupReturns(p) =>
                 /\ UNCHANGED <<temperature_, adcVars, timerVars>>
                 /\ UNCHANGED <<line, i, adc_reading, sampled, temp>>
                 /\ "TemperatureSensor" \in things_ => temperature'[p] = temperature_]_vars

\* A state read has answered, with the values the fields hold, while the task
\* stood in the middle of a burst of a later cycle.
C5_ReadDuringBurst ==
    /\ outcome.result = "all states"
    /\ InBurst("tds_task")
    /\ "AdcSensor" \in DOMAIN json
    /\ tds_value_ # 0 /\ conductivity_ # 0
    /\ Observed(json["AdcSensor"], "tds") = tds_value_
    /\ Observed(json["AdcSensor"], "conductivity") = conductivity_
    /\ i["dispatch"] = 0 /\ sampled["dispatch"] = {}

\* C6: a reader that races an update finds for tds, conductivity and ph the final
\* value of the previous update or the final (rounded) value of the update in
\* progress, never a value in between.
C6_ReadersSeeFinalValues ==
    [][StateRead =>
          /\ "AdcSensor" \in DOMAIN last_states_'
          /\ Observed(last_states_'["AdcSensor"], "tds") \in {lastFinal.tds, Round2(tds_value_)}
          /\ Observed(last_states_'["AdcSensor"], "conductivity")
                 \in {lastFinal.conductivity, Round2(conductivity_)}
          /\ Observed(last_states_'["AdcSensor"], "ph") \in {lastFinal.ph, Round2(ph_value_)}]_vars

\* C7: GetTemperature returns 25.0 when the lookup's text does not parse, has no
\* "state" object or no numeric "temperature" (no TemperatureSensor is
\* registered), and otherwise exactly the temperature the TemperatureSensor
\* publishes; either way the cycle goes on to its computation.
C7_TemperatureLookup ==
    [][\A p \in Procs :
          LookupReturns(p) =>
              /\ temperature'[p] = IF "TemperatureSensor" \in things_
                                   THEN temperature_ ELSE DefaultTemperature
              /\ pc'[p] = IF pc[p] = "tds_GetTemperature" THEN "tds_compensate" ELSE "ph_raw"]_vars

\* With no TemperatureSensor registered the cycle has computed a tds value from
\* the default temperature.
C7_DefaultUsed ==
    /\ "TemperatureSensor" \notin things_
    /\ pc["tds_task"] = "tds_conductivity"
    /\ temperature["tds_task"] = DefaultTemperature
    /\ tds_value_ = TdsOfVoltage(CompensationVoltage(tds_voltage_, DefaultTemperature))
    /\ tds_value_ # 0

\* --------------------------------------------- claims about the registry

\* C8: GetStatesJson without delta answers with every Thing's state; with delta
\* it answers with exactly the Things whose state text differs from the stored
\* one (or that have none stored); after every call the stored snapshot of every
\* Thing is its current state text.
C8_DeltaAndSnapshot ==
    [][StateRead =>
          /\ DOMAIN json' = IF outcome'.result = "all states" THEN things_
                            ELSE {t \in things_ : \/ t \notin DOMAIN last_states_
                                                  \/ last_states_[t] # StateJson(t)}
          /\ \A t \in DOMAIN json' : json'[t] = StateJson(t)
          /\ DOMAIN last_states_' = things_
          /\ \A t \in things_ : last_states_'[t] = StateJson(t)]_vars

\* A delta read has answered with the TemperatureSensor alone: the other Things
\* have not changed since the snapshot.
C8_DeltaOfOneThing ==
    /\ outcome.result = "changed states"
    /\ DOMAIN json = {"TemperatureSensor"}
    /\ DOMAIN last_states_ = things_
    /\ \A t \in things_ : last_states_[t] = StateJson(t)
    /\ temperature_ # 0

\* A command that names a registered Thing and one of its methods and gives every
\* required parameter with its type, read off the constructors.
WellFormed(command) ==
    /\ command.name \in things_
    /\ \/ command.name = "TemperatureSensor" /\ command.method = "Refresh"
       \/ command.name = "AdcSensor" /\ command.method \in {"RefreshTds", "RefreshPh"}
       \/ /\ command.name = "Timer" /\ command.method = "addTimer"
          /\ "time_range" \in DOMAIN command.parameters
          /\ command.parameters["time_range"].type = "number"
\* Invoke drops its command in this step; Invoke starts a handler in this step.
Dropped == outcome' # outcome /\ outcome'.result = "dropped"
Dispatched == pc["dispatch"] = "idle" /\ pc'["dispatch"] \notin {"idle", "halted"}

\* C9: a command that names an unknown Thing or method, or lacks or mistypes a
\* required parameter, is dropped and changes nothing; a handler is started only
\* for a well-formed command, and a well-formed command is never dropped.
C9_BadCommandDropped ==
    [][/\ Dropped =>
             /\ ~WellFormed(outcome'.command)
             /\ UNCHANGED <<registryVars, temperature_, adcVars, timerVars, line, pc,
                            localVars, handlerVars, alert, aborted, sampled, alone, lastFinal,
                            wireVars>>
       /\ Dispatched =>
             /\ WellFormed(outcome'.command)
             /\ outcome'.result = "handler"
             /\ UNCHANGED <<registryVars, temperature_, adcVars, timerVars>>]_vars

\* After a dropped command the first addTimer command is being carried out.
C9_HandlerAfterDrop ==
    /\ outcome.dropped /\ outcome.result = "handler"
    /\ outcome.command.method = "addTimer"
    /\ pc["dispatch"] = "addTimer_toggle" /\ ~toggle_timer_
    /\ timer_end_time_ = now + 1

\* ------------------------------------------------ claims about the cycles

\* C11: AdcSensor's task completes update cycles again and again: whatever
\* happens inside a cycle (a failed converter sample, a failed temperature
\* lookup), the task reaches the delay at the end of its loop infinitely often.
C11_TaskCyclesForever == []<>(pc["tds_task"] = "vTaskDelay")

\* Caller p's cycle makes its threshold test in this step.
TdsAlertTest(p) == pc[p] = "tds_alert" /\ pc'[p] # pc[p] /\ aborted' = "no"
PhAlertTest(p) == pc[p] = "ph_alert" /\ pc'[p] # pc[p] /\ aborted' = "no"

C13_FramingRoundTrip ==
    LET b == scratchpad[1] IN
    /\ \A k \in 1 .. 8 : Len(wire) >= k => wire[k] = WriteSlot((b \div 2^(k - 1)) % 2)
    /\ step["temp_task"] = 3 =>
          /\ Len(wire) = 16
          /\ \A k \in 1 .. 8 : wire[8 + k] = ReadSlot((b \div 2^(k - 1)) % 2)
          /\ data["temp_task"] = <<b>>

\* 0xA5 has been written and read back.
C13_A5ReadBack ==
    /\ pc["temp_task"] = "framing" /\ step["temp_task"] = 3
    /\ scratchpad[1] = 165
    /\ wire = <<"w1", "w0", "w1", "w0", "w0", "w1", "w0", "w1",
                "r1", "r0", "r1", "r0", "r0", "r1", "r0", "r1">>
    /\ data["temp_task"] = <<165>>

\* ReadTemperature computes its result in this step.
Decodes(p) == pc[p] = "ReadTemperature" /\ pc'[p] = "store_temperature"

\* C14: ReadTemperature returns raw / 16, raw being byte1 * 256 + byte0 read as a
\* 16-bit two's-complement number (negative from byte1 = 0x80 on), whatever bytes
\* 2..8 are; bytes 0x50, 0x05 give 85.0; and that value is what gets published.
C14_Decode ==
    [][\A p \in Procs :
          /\ Decodes(p) =>
                LET byte0 == data[p][1]
                    byte1 == data[p][2]
                    raw == IF byte1 >= 128 THEN byte1 * 256 + byte0 - 65536
                           ELSE byte1 * 256 + byte0
                IN  /\ temp'[p] * 16 = raw * Scale
                    /\ (byte0 = 80 /\ byte1 = 5) => temp'[p] = 85 * Scale
          /\ (pc[p] = "store_temperature" /\ pc'[p] # pc[p]) => temperature_' = temp[p]]_vars

\* The scratchpad 0xFF5E has been published as -10.125 C.
C14_NegativePublished ==
    /\ scratchpad[1] = 94 /\ scratchpad[2] = 255
    /\ scratchpad[3] = 0
    /\ pc["temp_task"] = "vTaskDelay"
    /\ temperature_ = -101250

\* The slots of the two commands of a transaction, written out: reset, 0xCC,
\* 0x44, the wait, reset, 0xCC, 0xBE, each byte lowest bit first.
CommandSlots ==
    <<"reset", "w0", "w0", "w1", "w1", "w0", "w0", "w1", "w1",
               "w0", "w0", "w1", "w0", "w0", "w0", "w1", "w0",
      "wait",
      "reset", "w0", "w0", "w1", "w1", "w0", "w0", "w1", "w1",
               "w0", "w1", "w1", "w1", "w1", "w1", "w0", "w1">>
WholeTransaction(w) ==
    /\ Len(w) = 35 + 72
    /\ SubSeq(w, 1, 35) = CommandSlots
    /\ \A k \in 36 .. 107 : w[k] \in {"r0", "r1"}

\* C17: when ReadTemperature computes its result, the line has carried, since the
\* transaction began, exactly: reset, 0xCC, 0x44, the wait, reset, 0xCC, 0xBE and
\* 72 read slots, nine bytes being read; the line's record only grows slot by
\* slot within a transaction; and temperature_ changes only after such a
\* transaction is complete.
C17_TransactionOrder ==
    [][/\ \A p \in Procs : Decodes(p) => (WholeTransaction(wire) /\ Len(data[p]) = 9)
       /\ wire' # wire =>
             \/ wire' = Append(wire, wire'[Len(wire')])
             \/ Len(wire') = 1 /\ Len(wire) \in {0, 107}
       /\ temperature_' # temperature_ =>
             /\ WholeTransaction(wire)
             /\ \E p \in Procs : pc[p] = "store_temperature"]_vars

\* A second transaction is complete, ready to publish 25.0 C after 85.0 C.
C17_SecondTransactionRead ==
    /\ pc["temp_task"] = "store_temperature"
    /\ WholeTransaction(wire)
    /\ wire = TransactionOf(scratchpad)
    /\ temperature_ = 85 * Scale /\ temp["temp_task"] = 25 * Scale

\* ------------------------------------------ claims about the update cycles

\* What a TDS cycle of caller p has computed from the voltage it read and the
\* temperature it looked up, before any rounding.
TdsComputed(p) == TdsOfVoltage(CompensationVoltage(tds_voltage_, temperature[p]))

Lookups == {"tds_GetTemperature", "ph_GetTemperature"}
LooksUp(p) == pc'[p] \in {"tds_compensate", "ph_raw"} /\ pc'[p] # pc[p]

\* C18: a cycle begins its temperature lookup only from a read that has taken all
\* its samples and returned, the voltage stored; at the lookup the caller is in no
\* read, has no sample pending, and the lookup step itself takes no sample.
C18_LookupOutsideRead ==
    [][\A p \in Procs :
          /\ (pc'[p] \in Lookups /\ pc[p] \notin Lookups) =>
                /\ InRead(p) /\ i[p] = ADC_SAMPLE_COUNT
                /\ IF pc[p] = "ReadTdsVoltage"
                   THEN tds_voltage_' = AverageToVoltage(adc_reading[p])
                   ELSE ph_voltage_' = AverageToVoltage(adc_reading[p])
          /\ LooksUp(p) =>
                /\ pc[p] \in Lookups /\ ~InRead(p)
                /\ i[p] = 0 /\ i'[p] = 0
                /\ sampled'[p] = sampled[p]
                /\ adc_reading'[p] = adc_reading[p]]_vars

\* The dispatch path's cycle is at its lookup while the task is in the middle of
\* a burst.
C18_LookupDuringOthersBurst ==
    /\ pc["dispatch"] \in Lookups /\ i["dispatch"] = 0
    /\ InBurst("tds_task")

\* A probe's task has finished an update cycle and sleeps.
TdsCycleOver == pc["tds_task"] \in {"vTaskDelay", "TdsSensor_vTaskDelay"}
PhCycleOver == pc["tds_task"] = "vTaskDelay" \/ pc["ph_task"] = "PhSensor_vTaskDelay"

\* C19: at the end of an update cycle the published tds, conductivity and ph are
\* multiples of 0.01, in AdcSensor, TdsSensor and PhSensor.
C19_TwoDecimalsPublished ==
    /\ TdsCycleOver => (tds_value_ % (Scale \div 100) = 0 /\ conductivity_ % (Scale \div 100) = 0)
    /\ PhCycleOver => ph_value_ % (Scale \div 100) = 0

\* The same for AdcSensor alone.
AdcSensorTwoDecimals ==
    pc["tds_task"] = "vTaskDelay" =>
        /\ tds_value_ % (Scale \div 100) = 0 /\ conductivity_ % (Scale \div 100) = 0
        /\ ph_value_ % (Scale \div 100) = 0

\* C20: the published ph lies between 0 and 14.
C20_PhWithinScale == 0 <= ph_value_ /\ ph_value_ <= 14 * Scale

\* ------------------------------------------- claims about the converter units

\* C21: a probe configures its channel and samples only on a handle that is a
\* live converter unit, whichever probes have been destroyed before.
C21_NoUseOfReleasedHandle ==
    [][/\ (pc["tds_task"] = "deleted" /\ aborted' \in {"no", "tds_task"}
             /\ pc'["tds_task"] # "deleted") =>
              adc_handle_["ThingManager"] \in units
       /\ (pc["tds_task"] = "TdsSensor_UpdateTdsValue" /\ aborted' \in {"no", "tds_task"}
             /\ pc'["tds_task"] \notin {pc["tds_task"], "deleted"}) =>
              adc_handle_["TdsSensor"] \in units
       /\ (pc["ph_task"] = "PhSensor_UpdatePhValue" /\ aborted' \in {"no", "ph_task"}
             /\ pc'["ph_task"] # pc["ph_task"]) =>
              adc_handle_["PhSensor"] \in units]_vars

\* ------------------------------------------ claims about the one-wire pin

\* C22: at most one caller has a one-wire transaction in progress at any instant.
C22_OneTransactionAtATime == Cardinality({p \in Procs : InTransaction(p)}) <= 1

\* ----------------------------------------------- claims about the Timer

\* C23: in the long run the timer armed by the last addTimer call has had its
\* completion notified and toggle_timer_ is false, unless its end time lies
\* beyond the time the clock reaches (MaxTime).
C23_LastTimerCompletes ==
    <>[](\/ timer_end_time_ > now
         \/ ~toggle_timer_ /\ notified = calls)

\* TimerTask schedules a completion notification in this step.
Completes == pc["timer_task"] = "timer_notify" /\ pc'["timer_task"] = "timer_clear"

\* C24: TimerTask goes to notify only with toggle_timer_ true and an end time set
\* by addTimer not later than the clock; it notifies with toggle_timer_ true; and
\* the notifications never outnumber the addTimer calls.
C24_CompletionOnlyWhenArmed ==
    [][/\ (pc["timer_task"] = "timer_test_end" /\ pc'["timer_task"] = "timer_notify") =>
              (toggle_timer_ /\ calls >= 1 /\ timer_end_time_ <= timer_now /\ timer_now <= now)
       /\ Completes => (toggle_timer_ /\ tested >= 1)
       /\ completions' <= calls']_vars

\* Two timers have been armed and both have completed.
C24_TwoTimersCompleted ==
    /\ calls = 2 /\ completions = 2 /\ notified = 2
    /\ ~toggle_timer_ /\ pc["dispatch"] = "idle"

\* ------------------------------- claims about the compensation's inputs

\* The temperatures a completed one-wire transaction can decode.
DecodedTemperatures ==
    {TemperatureOfRaw(RawOfScratchpad(pad[1], pad[2])) : pad \in Scratchpads}

\* A cycle of p puts its temperature into a compensation formula in this step.
Compensates(p) ==
    \/ pc[p] = "tds_compensate" /\ pc'[p] = "tds_convert"
    \/ pc[p] = "ph_compensate" /\ pc'[p] = "ph_round"

\* C25: every temperature that enters a compensation formula is the default 25.0
\* or a value decoded from a completed transaction, never the initial 0.0 of
\* TemperatureSensor's field.
C25_CompensationTemperature ==
    [][\A p \in Procs :
          Compensates(p) => temperature[p] \in {DefaultTemperature} \cup DecodedTemperatures]_vars

\* C26: whenever a cycle is about to divide, the coefficient 1 + 0.02 (T - 25) of
\* its temperature is strictly positive, and the compensated voltage it then
\* holds is not of the opposite sign to the voltage.
C26_CoefficientPositive ==
    \A p \in Procs :
        /\ pc[p] = "tds_compensate" => CompensationCoefficient(temperature[p]) > 0
        /\ pc[p] = "tds_convert" =>
              /\ tds_voltage_ > 0 => compensationVoltage[p] >= 0
              /\ tds_voltage_ < 0 => compensationVoltage[p] <= 0

====
